---- MODULE Spec2Model ----
(***************************************************************************)
(* Model of the text -> entities -> relationships -> graph pipeline of     *)
(* lutfis/visualmind: the aisuite-backed pipeline of src/codex_code and    *)
(* the agent-backed pipeline of src/atomic_agents_pipeline.                *)
(*                                                                         *)
(* Strings are sequences of one-character tokens ("sp", "nl" and "tab" are *)
(* the whitespace characters, "bt" the backtick).  A JSON object literal is*)
(* one token whose parsed value is looked up in ObjTable; numbers are      *)
(* fixed-point hundredths (90 is 0.9).                                     *)
(***************************************************************************)
EXTENDS Integers, Sequences, FiniteSets, TLC

VARIABLES
    pipeline,       \* which main() runs: "codex_code" or "atomic_agents"
    pc,             \* position of main()
    input_exists,   \* whether the input file exists
    text,           \* the document: the file's content, then its trimmed form
    max_attempts,   \* max_attempts of _parse_json_payload
    attempt,        \* iterations of the decoder loop completed in this decode
    user_prompt,    \* the decoder's current user_prompt
    last_error,     \* the decoder's last_error
    decode,         \* per stage: how its _parse_json_payload call stands
    raw,            \* per stage: the payload its decode returned
    log,            \* per stage: the gateway calls its decode has issued
    svc,            \* what the completion service did on the last call
    reply,          \* what complete() made of it
    total_calls,    \* model calls issued by the whole run
    error,          \* the exception (or exit) that ended the run, if any
    candidates,     \* atomic_agents: output of the entity agent
    entities,       \* output of the entity stage (canonical in atomic_agents)
    relationships,  \* output of the relationship stage
    graph,          \* <<g>> once a graph g is assembled, <<>> before
    rendered        \* TRUE once the graph was handed to the renderer

vars == <<pipeline, pc, input_exists, text, max_attempts, attempt, user_prompt,
          last_error, decode, raw, log, svc, reply, total_calls, error, candidates,
          entities, relationships, graph, rendered>>

(***************************************************************************)
(* Bounds                                                                  *)
(***************************************************************************)
MaxAttemptsBound == 3
MaxRecs == 2

(***************************************************************************)
(* str.strip(), str.strip(chars), str.lower()                              *)
(***************************************************************************)
Whitespace == {"sp", "nl", "tab"}

RECURSIVE LStrip(_, _)
LStrip(s, cs) ==
    IF s # <<>> /\ Head(s) \in cs THEN LStrip(Tail(s), cs) ELSE s

RECURSIVE RStrip(_, _)
RStrip(s, cs) ==
    IF s # <<>> /\ s[Len(s)] \in cs THEN RStrip(SubSeq(s, 1, Len(s) - 1), cs) ELSE s

StrStrip(s, cs) == RStrip(LStrip(s, cs), cs)

LowerChar(c) ==
    CASE c = "A" -> "a"
      [] c = "B" -> "b"
      [] c = "G" -> "g"
      [] c = "N" -> "n"
      [] c = "P" -> "p"
      [] c = "Person" -> "person"
      [] OTHER -> c

Lower(s) == [i \in DOMAIN s |-> LowerChar(s[i])]

(***************************************************************************)
(* json.loads on a token string.  JSON whitespace may stand between any    *)
(* two lexemes; an object literal (ObjTokens) and a scalar literal         *)
(* (ScalarTokens) are one lexeme each; every other character is no JSON.   *)
(***************************************************************************)
EntityObjTokens == {"E_A", "E_B", "E_a", "E_A2", "E_noname", "E_G",
                    "E_notype", "E_big"}
RelObjTokens    == {"R_AB", "R_AB2", "R_BA", "R_AG", "R_nolabel", "R_nosrc",
                    "R_blank", "R_big"}
ObjTokens       == EntityObjTokens \cup RelObjTokens \cup {"O_wrapped"}
ScalarTokens    == {"1", "null"}

NoValue == [kind |-> "none", tok |-> "", items |-> <<>>]

ParseFail(msg, i) == [ok |-> FALSE, next |-> i, val |-> NoValue, msg |-> msg]
ParseOk(v, i)     == [ok |-> TRUE, next |-> i, val |-> v, msg |-> ""]

RECURSIVE ParseValue(_, _)
RECURSIVE ParseElems(_, _, _)
ParseValue(u, i) ==
    IF i > Len(u) THEN ParseFail("Expecting value", i)
    ELSE IF u[i] \in ObjTokens
        THEN ParseOk([kind |-> "dict", tok |-> u[i], items |-> <<>>], i + 1)
    ELSE IF u[i] \in ScalarTokens
        THEN ParseOk([kind |-> "scalar", tok |-> u[i], items |-> <<>>], i + 1)
    ELSE IF u[i] = "["
        THEN IF i + 1 <= Len(u) /\ u[i + 1] = "]"
             THEN ParseOk([kind |-> "list", tok |-> "", items |-> <<>>], i + 2)
             ELSE ParseElems(u, i + 1, <<>>)
    ELSE ParseFail("Expecting value", i)

ParseElems(u, i, acc) ==
    LET v == ParseValue(u, i) IN
    IF ~v.ok THEN v
    ELSE IF v.next > Len(u) THEN ParseFail("Expecting ',' delimiter", v.next)
    ELSE IF u[v.next] = "," THEN ParseElems(u, v.next + 1, Append(acc, v.val))
    ELSE IF u[v.next] = "]"
        THEN ParseOk([kind |-> "list", tok |-> "", items |-> Append(acc, v.val)],
                     v.next + 1)
    ELSE ParseFail("Expecting ',' delimiter", v.next)

\* json.loads(doc): the parsed value, or the JSONDecodeError (msg and doc).
JsonLoads(doc) ==
    LET u == SelectSeq(doc, LAMBDA c : c \notin Whitespace)
        r == ParseValue(u, 1)
    IN  IF ~r.ok THEN [ok |-> FALSE, val |-> NoValue, msg |-> r.msg, doc |-> doc]
        ELSE IF r.next <= Len(u)
            THEN [ok |-> FALSE, val |-> NoValue, msg |-> "Extra data", doc |-> doc]
        ELSE [ok |-> TRUE, val |-> r.val, msg |-> "", doc |-> doc]

(***************************************************************************)
(* Decoded JSON objects: what item.get(key) finds under each key.          *)
(***************************************************************************)
FStr(s)  == [kind |-> "str", s |-> s, n |-> 0]
FNum(n)  == [kind |-> "num", s |-> <<>>, n |-> n]
FAbsent  == [kind |-> "absent", s |-> <<>>, n |-> 0]
FNull    == [kind |-> "null", s |-> <<>>, n |-> 0]
\* an integer literal beyond the range of a float (json.loads keeps it an int)
FBig     == [kind |-> "big", s |-> <<>>, n |-> 0]

EntityObj(name, type, importance) ==
    [name |-> name, type |-> type, importance |-> importance,
     source |-> FAbsent, target |-> FAbsent, relation_type |-> FAbsent,
     weight |-> FAbsent]

RelObj(source, target, relation_type, weight) ==
    [name |-> FAbsent, type |-> FAbsent, importance |-> FAbsent,
     source |-> source, target |-> target, relation_type |-> relation_type,
     weight |-> weight]

ObjTable(tok) ==
    CASE tok = "E_A"  -> EntityObj(FStr(<<"A">>), FStr(<<"person">>), FNum(90))
      [] tok = "E_B"  -> EntityObj(FStr(<<"B">>), FStr(<<"organization">>), FNum(80))
      [] tok = "E_a"  -> EntityObj(FStr(<<"a">>), FStr(<<"Person">>), FStr(<<"h", "i">>))
      [] tok = "E_A2" -> EntityObj(FStr(<<"sp", "A", "sp">>), FStr(<<"state">>), FNum(150))
      [] tok = "E_noname" -> EntityObj(FAbsent, FStr(<<"person">>), FNum(50))
      [] tok = "E_G"  -> EntityObj(FStr(<<"G">>), FStr(<<"city">>), FNum(0 - 20))
      [] tok = "E_notype" -> EntityObj(FStr(<<"N">>), FAbsent, FNull)
      [] tok = "E_big" -> EntityObj(FStr(<<"P">>), FStr(<<"person">>), FBig)
      [] tok = "R_AB" -> RelObj(FStr(<<"A">>), FStr(<<"B">>), FStr(<<"founded">>), FNum(95))
      [] tok = "R_AB2" -> RelObj(FStr(<<"A">>), FStr(<<"B">>), FStr(<<"owns">>), FNum(30))
      [] tok = "R_BA" -> RelObj(FStr(<<"B">>), FStr(<<"A">>), FStr(<<"employs">>), FAbsent)
      [] tok = "R_AG" -> RelObj(FStr(<<"A">>), FStr(<<"G", "v">>), FStr(<<"based", "sp", "in">>), FNum(50))
      [] tok = "R_nolabel" -> RelObj(FStr(<<"B">>), FStr(<<"B">>), FAbsent, FStr(<<"0", ".", "7">>))
      [] tok = "R_nosrc" -> RelObj(FAbsent, FStr(<<"B">>), FStr(<<"founded">>), FNum(50))
      [] tok = "R_blank" -> RelObj(FStr(<<"A">>), FStr(<<"B">>), FStr(<<"sp">>), FNull)
      [] tok = "R_big" -> RelObj(FStr(<<"B">>), FStr(<<"A">>), FStr(<<"owns">>), FBig)
      [] OTHER -> EntityObj(FAbsent, FAbsent, FAbsent)

\* str(item.get(key, "")): a missing key is "", JSON null is "None".
PyStr(v) ==
    CASE v.kind = "str"    -> v.s
      [] v.kind = "num"    -> <<ToString(v.n)>>
      [] v.kind = "null"   -> <<"N", "o", "n", "e">>
      [] v.kind = "big"    -> <<"1", "0...0">>
      [] OTHER             -> <<>>

\* float(value) of a str: surrounding whitespace is ignored.
FloatOfStr(s) ==
    LET t == StrStrip(s, Whitespace) IN
    IF t = <<"0", ".", "7">> THEN [ok |-> TRUE, n |-> 70]
    ELSE IF t = <<"2">> THEN [ok |-> TRUE, n |-> 200]
    ELSE [ok |-> FALSE, n |-> 0]

Min(a, b) == IF a < b THEN a ELSE b
Max(a, b) == IF a > b THEN a ELSE b

\* _ensure_float(value, default), in hundredths.
EnsureFloat(v, default) ==
    CASE v.kind = "num" -> Max(0, Min(100, v.n))
      [] v.kind = "str" ->
            IF FloatOfStr(v.s).ok THEN Max(0, Min(100, FloatOfStr(v.s).n))
            ELSE default
      [] OTHER -> default

\* float(value) of an int too large for a float raises OverflowError, which
\* _ensure_float does not catch.
EnsureFloatRaises(v) == v.kind = "big"

HalfDefault == 50

RECURSIVE CoerceEntitiesFrom(_, _, _)
CoerceEntitiesFrom(items, seen, out) ==
    IF items = <<>> THEN out
    ELSE
        LET item  == ObjTable(Head(items).tok)
            name  == StrStrip(PyStr(item.name), Whitespace)
            type_ == StrStrip(PyStr(item.type), Whitespace)
            key   == <<Lower(name), Lower(type_)>>
        IN  IF name = <<>> THEN CoerceEntitiesFrom(Tail(items), seen, out)
            ELSE IF key \in seen THEN CoerceEntitiesFrom(Tail(items), seen, out)
            ELSE CoerceEntitiesFrom(Tail(items), seen \cup {key},
                    Append(out, [name |-> name, type |-> type_,
                                 importance |-> EnsureFloat(item.importance, HalfDefault)]))

\* a coercion that keeps the last record of each (name, type) pair
CoerceEntitiesLastWins(items) ==
    LET Reversed(q) == [i \in DOMAIN q |-> q[Len(q) + 1 - i]]
    IN  Reversed(CoerceEntitiesFrom(Reversed(items), {}, <<>>))

\* _coerce_entities(raw_entities)
CoerceEntities(items) == CoerceEntitiesFrom(items, {}, <<>>)

\* The exception class the loop of _coerce_entities ends with, "" for none:
\* item.get on an element that is no JSON object raises AttributeError, and
\* _ensure_float on the importance of a record about to be kept may raise.
RECURSIVE CoerceEntitiesRaisesFrom(_, _)
CoerceEntitiesRaisesFrom(items, seen) ==
    IF items = <<>> THEN ""
    ELSE IF Head(items).kind # "dict" THEN "AttributeError"
    ELSE
        LET item  == ObjTable(Head(items).tok)
            name  == StrStrip(PyStr(item.name), Whitespace)
            type_ == StrStrip(PyStr(item.type), Whitespace)
            key   == <<Lower(name), Lower(type_)>>
        IN  IF name = <<>> \/ key \in seen
            THEN CoerceEntitiesRaisesFrom(Tail(items), seen)
            ELSE IF EnsureFloatRaises(item.importance) THEN "OverflowError"
            ELSE CoerceEntitiesRaisesFrom(Tail(items), seen \cup {key})

CoerceEntitiesRaises(items) == CoerceEntitiesRaisesFrom(items, {})

EntityNames(ents) == {ents[i].name : i \in DOMAIN ents}

RelatedLabel == <<"related">>

RECURSIVE CoerceRelationshipsFrom(_, _, _)
CoerceRelationshipsFrom(items, entity_names, out) ==
    IF items = <<>> THEN out
    ELSE
        LET item   == ObjTable(Head(items).tok)
            source == StrStrip(PyStr(item.source), Whitespace)
            target == StrStrip(PyStr(item.target), Whitespace)
            relation_type == StrStrip(PyStr(item.relation_type), Whitespace)
        IN  IF source = <<>> \/ target = <<>>
               \/ source \notin entity_names \/ target \notin entity_names
            THEN CoerceRelationshipsFrom(Tail(items), entity_names, out)
            ELSE CoerceRelationshipsFrom(Tail(items), entity_names,
                    Append(out, [source |-> source, target |-> target,
                                 relation_type |-> IF relation_type = <<>>
                                                   THEN RelatedLabel
                                                   ELSE relation_type,
                                 weight |-> EnsureFloat(item.weight, HalfDefault)]))

\* _coerce_relationships(raw_relationships, valid_entities)
CoerceRelationships(items, valid_entities) ==
    CoerceRelationshipsFrom(items, EntityNames(valid_entities), <<>>)

\* The exception class the loop of _coerce_relationships ends with, "" for none.
RECURSIVE CoerceRelationshipsRaisesFrom(_, _)
CoerceRelationshipsRaisesFrom(items, entity_names) ==
    IF items = <<>> THEN ""
    ELSE IF Head(items).kind # "dict" THEN "AttributeError"
    ELSE
        LET item   == ObjTable(Head(items).tok)
            source == StrStrip(PyStr(item.source), Whitespace)
            target == StrStrip(PyStr(item.target), Whitespace)
        IN  IF source = <<>> \/ target = <<>>
               \/ source \notin entity_names \/ target \notin entity_names
            THEN CoerceRelationshipsRaisesFrom(Tail(items), entity_names)
            ELSE IF EnsureFloatRaises(item.weight) THEN "OverflowError"
            ELSE CoerceRelationshipsRaisesFrom(Tail(items), entity_names)

CoerceRelationshipsRaises(items, valid_entities) ==
    CoerceRelationshipsRaisesFrom(items, EntityNames(valid_entities))

CoerceErrorMsg(cls) ==
    IF cls = "AttributeError" THEN "no attribute get"
    ELSE "int too large to convert to float"

\* item.get on an array element that is no JSON object raises AttributeError.
AllDicts(items) == \A i \in DOMAIN items : items[i].kind = "dict"

(***************************************************************************)
(* The assemblers: build_graph (codex_code) and the graph construction of  *)
(* _render_graph (atomic_agents_pipeline).  A graph is its node table and  *)
(* its edge table, as networkx.DiGraph keeps them.                         *)
(***************************************************************************)
EmptyGraph == [nodes |-> <<>>, edges |-> <<>>]

\* graph.add_node(name, **attrs): a node that exists has its attributes updated.
AddNode(g, name, attrs) == [g EXCEPT !.nodes = (name :> attrs) @@ g.nodes]

\* an edge that exists keeps the attributes it has
AddEdgeKeepFirst(g, u, v, attrs) == [g EXCEPT !.edges = g.edges @@ (<<u, v>> :> attrs)]

\* graph.add_edge(u, v, **attrs): an edge that exists has its attributes updated.
AddEdge(g, u, v, attrs) == [g EXCEPT !.edges = (<<u, v>> :> attrs) @@ g.edges]

RECURSIVE BuildNodes(_, _)
BuildNodes(g, ents) ==
    IF ents = <<>> THEN g
    ELSE BuildNodes(AddNode(g, Head(ents).name,
                            [type |-> Head(ents).type,
                             importance |-> Head(ents).importance]),
                    Tail(ents))

RECURSIVE BuildEdges(_, _)
BuildEdges(g, rels) ==
    IF rels = <<>> THEN g
    ELSE LET relation == Head(rels) IN
         IF relation.source \notin DOMAIN g.nodes \/ relation.target \notin DOMAIN g.nodes
         THEN BuildEdges(g, Tail(rels))
         ELSE BuildEdges(AddEdge(g, relation.source, relation.target,
                                 [relation_type |-> relation.relation_type,
                                  weight |-> relation.weight]),
                         Tail(rels))

\* add_edge without the membership test: networkx creates the missing nodes
RECURSIVE BuildEdgesUnguarded(_, _)
BuildEdgesUnguarded(g, rels) ==
    IF rels = <<>> THEN g
    ELSE LET relation == Head(rels)
             missing == {relation.source, relation.target} \ DOMAIN g.nodes
             withNodes == [g EXCEPT !.nodes =
                              [n \in missing |-> [type |-> <<>>, importance |-> 0]] @@ g.nodes]
         IN  BuildEdgesUnguarded(AddEdge(withNodes, relation.source, relation.target,
                                         [relation_type |-> relation.relation_type,
                                          weight |-> relation.weight]),
                                 Tail(rels))

build_graph_unguarded(ents, rels) ==
    BuildEdgesUnguarded(BuildNodes(EmptyGraph, ents), rels)

\* build_graph(entities, relationships)
build_graph(ents, rels) == BuildEdges(BuildNodes(EmptyGraph, ents), rels)

\* sep.join(parts)
RECURSIVE Join(_, _)
Join(parts, sep) ==
    IF parts = <<>> THEN <<>>
    ELSE IF Len(parts) = 1 THEN Head(parts)
    ELSE Head(parts) \o sep \o Join(Tail(parts), sep)

CommaSpace == <<",", "sp">>

RECURSIVE RenderNodes(_, _)
RenderNodes(g, ents) ==
    IF ents = <<>> THEN g
    ELSE RenderNodes(AddNode(g, Head(ents).canonical_name,
                             [type |-> Join(Head(ents).types, CommaSpace),
                              value |-> Head(ents).importance,
                              members |-> Join(Head(ents).members, CommaSpace)]),
                     Tail(ents))

RECURSIVE RenderEdges(_, _, _)
RenderEdges(g, known_nodes, rels) ==
    IF rels = <<>> THEN g
    ELSE LET relation == Head(rels) IN
         IF relation.source \notin known_nodes \/ relation.target \notin known_nodes
         THEN RenderEdges(g, known_nodes, Tail(rels))
         ELSE RenderEdges(AddEdge(g, relation.source, relation.target,
                                  [width |-> relation.weight,
                                   title |-> relation.relationship]),
                          known_nodes, Tail(rels))

\* the graph _render_graph(entities, relationships, output_html) hands to pyvis
render_graph_of(ents, rels) ==
    LET g == RenderNodes(EmptyGraph, ents)
    IN  RenderEdges(g, DOMAIN g.nodes, rels)

(***************************************************************************)
(* AISuiteLLM.complete: what the completion service did, and what          *)
(* complete() makes of it.                                                 *)
(***************************************************************************)
Part(isdict, t) == [isdict |-> isdict, text |-> t]

Outcome(kind, t, parts) == [kind |-> kind, text |-> t, parts |-> parts]

\* str(response) of a response object without usable content
ReprText == <<"r", "e", "p", "r">>

\* str(content) of a content list: Python's repr, which is JSON only for []
ReprList(parts) ==
    IF parts = <<>> THEN <<"[", "]">> ELSE <<"[", "{", "'", "}", "]">>

RECURSIVE Chunks(_)
Chunks(parts) ==
    IF parts = <<>> THEN <<>>
    ELSE IF Head(parts).isdict /\ Head(parts).text # <<>>
        THEN <<Head(parts).text>> \o Chunks(Tail(parts))
    ELSE Chunks(Tail(parts))

NoCause == [msg |-> "", doc |-> <<>>]
NoError == [cls |-> "none", msg |-> "", cause |-> NoCause]
Exc(cls, msg, cause) == [cls |-> cls, msg |-> msg, cause |-> cause]

Returned(t) == [raised |-> FALSE, exc |-> NoError, text |-> t]
Raised(e)   == [raised |-> TRUE, exc |-> e, text |-> <<>>]

\* complete(system_prompt, user_prompt), given the service's outcome o
Complete(o) ==
    CASE o.kind = "raise_module" ->
            Raised(Exc("RuntimeError", "The openai package is required", NoCause))
      [] o.kind = "raise" ->
            Raised(Exc("RuntimeError", "LLM request failed", NoCause))
      [] o.kind = "no_choices" -> Returned(ReprText)
      [] o.kind = "no_message" -> Returned(ReprText)
      [] o.kind = "no_content" -> Returned(ReprText)
      [] o.kind = "list" ->
            IF Chunks(o.parts) # <<>> THEN Returned(Join(Chunks(o.parts), <<>>))
            ELSE Returned(ReprList(o.parts))
      [] o.kind = "str" -> Returned(o.text)
      [] OTHER -> Returned(ReprText)

\* raw_response.strip().strip(backtick)
Clean(raw_response) == StrStrip(StrStrip(raw_response, Whitespace), {"bt"})

(***************************************************************************)
(* What the completion service may answer.                                 *)
(***************************************************************************)
SeqsUpTo(S, n) == UNION {[1..k -> S] : k \in 0..n}

\* the JSON text of an array of object literals
ArrayText(objs) ==
    <<"[">> \o Join([i \in DOMAIN objs |-> <<objs[i]>>], <<",">>) \o <<"]">>

Fence == <<"bt", "bt", "bt">>

\* three backticks, json, newline, [], newline, three backticks
FencedTaggedEmpty ==
    Fence \o <<"j", "s", "o", "n", "nl", "[", "]", "nl">> \o Fence

FencedEmpty == Fence \o <<"nl", "[", "]", "nl">> \o Fence

CommonTexts ==
    { <<"x">>,                            \* prose
      <<>>,                               \* nothing
      FencedTaggedEmpty,
      FencedEmpty,
      <<"sp", "[", "sp", "]", "nl">>,     \* a padded empty array
      <<"x", "[", "]">>,                  \* prose before an array
      <<"[", "E_A", ",", "]">>,           \* a trailing comma
      <<"O_wrapped">>,                    \* a JSON object
      <<"1">>,                            \* a JSON number
      <<"[", "1", "]">> }                 \* an array of numbers

\* the object literals the service uses when it answers a stage of a run
StageObjTokens(stage) ==
    IF stage = "entities" THEN {"E_A", "E_B", "E_a", "E_noname"}
    ELSE {"R_AB", "R_AG", "R_nosrc"}

StageTexts(stage) ==
    CommonTexts \cup {ArrayText(objs) : objs \in SeqsUpTo(StageObjTokens(stage), MaxRecs)}

ListContents ==
    { <<>>,
      <<Part(TRUE, <<"[">>), Part(FALSE, <<"x">>), Part(TRUE, <<>>), Part(TRUE, <<"]">>)>>,
      <<Part(TRUE, <<>>)>> }

ServiceOutcomes(stage) ==
    {Outcome(k, <<>>, <<>>) :
        k \in {"raise_module", "raise", "no_choices", "no_message", "no_content"}}
    \cup {Outcome("str", t, <<>>) : t \in StageTexts(stage)}
    \cup {Outcome("list", <<>>, parts) : parts \in ListContents}

NoOutcome == Outcome("none", <<>>, <<>>)
NoReply   == Returned(<<>>)

(***************************************************************************)
(* _parse_json_payload: one iteration of its loop.                         *)
(***************************************************************************)
Stages == {"entities", "relationships"}

DefaultMaxAttempts == 2

Reminder == <<"nl", "nl", "Reminder: respond with ONLY valid JSON. No commentary.">>

SystemPrompt(stage) ==
    IF stage = "entities" THEN <<"You are an information extraction assistant.">>
    ELSE <<"You are an assistant that maps relationships between known entities.">>

RECURSIVE NamesOf(_)
NamesOf(ents) ==
    IF ents = <<>> THEN <<>> ELSE Head(ents).name \o <<",">> \o NamesOf(Tail(ents))

\* the user prompt a stage starts its decode with
UserPrompt(stage, t, ents) ==
    IF stage = "entities" THEN <<"list key entities", "Text:">> \o t
    ELSE <<"output an array of relationship objects", "Text:">> \o t
         \o <<"Entities:">> \o NamesOf(ents)

\* the loop bound off by one: an iteration too many
HasNextAttemptOneMore(done, max) == done <= max

\* the loop bound off by one: an iteration too few
HasNextAttemptOneLess(done, max) == done + 1 < max

\* for attempt in range(1, max_attempts + 1): is there an iteration after
\* `done` completed ones
HasNextAttempt(done, max) == done < max

\* if attempt < max_attempts: the prompt is decorated for the next iteration
DecoratesPrompt(att, max) == att < max

DecodeErrorMsg == "Failed to parse JSON response"

\* the gateway's failure caught like a parse failure and retried
OnGatewayFailureRetried(exc, done, max, prompt) ==
    [kind |-> IF done + 1 < max THEN "retry" ELSE "exhausted",
     exc |-> Exc("ValueError", DecodeErrorMsg, NoCause), val |-> NoValue,
     err |-> NoCause, prompt |-> prompt]

\* llm.complete raises inside the loop: no except clause of the function
\* matches a RuntimeError, so it leaves the function at once
OnGatewayFailure(exc, done, max, prompt) ==
    [kind |-> "transport", exc |-> exc, val |-> NoValue,
     err |-> NoCause, prompt |-> prompt]

\* the check widened to any JSON container
IsListOrDict(val) == val.kind \in {"list", "dict"}

\* isinstance(payload, list)
IsList(val) == val.kind = "list"

\* One iteration, given the service's outcome o: a transport failure leaves
\* the function, a parsed payload is returned, a JSONDecodeError is kept in
\* last_error and either the loop goes on or the ValueError is raised.
DecodeIteration(o, done, max, prompt) ==
    LET r == Complete(o) IN
    IF r.raised
    THEN OnGatewayFailure(r.exc, done, max, prompt)
    ELSE LET p == JsonLoads(Clean(r.text))
             e == [msg |-> p.msg, doc |-> p.doc]
             next_prompt == IF DecoratesPrompt(done + 1, max)
                            THEN prompt \o Reminder ELSE prompt
         IN  IF p.ok
             THEN [kind |-> "returned", exc |-> NoError, val |-> p.val,
                   err |-> NoCause, prompt |-> prompt]
             ELSE IF HasNextAttempt(done + 1, max)
             THEN [kind |-> "retry", exc |-> NoError, val |-> NoValue,
                   err |-> e, prompt |-> next_prompt]
             ELSE [kind |-> "exhausted",
                   exc |-> Exc("ValueError", DecodeErrorMsg, e),
                   val |-> NoValue, err |-> e, prompt |-> next_prompt]

\* the record of one gateway call: the prompts it was sent, and whether it
\* raised, answered a text that parses, or answered one that does not
LogEntry(stage, prompt, o) ==
    [system |-> SystemPrompt(stage), user |-> prompt,
     result |-> IF Complete(o).raised THEN "transport"
                ELSE IF JsonLoads(Clean(Complete(o).text)).ok THEN "parsed"
                ELSE "unparsable"]

(***************************************************************************)
(* codex_code/main.py                                                      *)
(***************************************************************************)
InputTexts == {<<>>, <<"sp", "nl">>, <<"sp", "T", "nl">>}

Init ==
    /\ pipeline \in {"codex_code", "atomic_agents"}
    /\ pc = "start"
    /\ input_exists \in BOOLEAN
    /\ text \in InputTexts
    /\ max_attempts \in (IF pipeline = "codex_code" THEN 1..MaxAttemptsBound
                         ELSE {DefaultMaxAttempts})
    /\ attempt = 0
    /\ user_prompt = <<>>
    /\ last_error = NoCause
    /\ decode = [st \in Stages |-> "idle"]
    /\ raw = [st \in Stages |-> NoValue]
    /\ log = [st \in Stages |-> <<>>]
    /\ svc = NoOutcome
    /\ reply = NoReply
    /\ total_calls = 0
    /\ error = NoError
    /\ candidates = <<>>
    /\ entities = <<>>
    /\ relationships = <<>>
    /\ graph = <<>>
    /\ rendered = FALSE

\* an exception nobody catches, or sys.exit(1), ends main()
Ends(how, exc) ==
    /\ pc' = how
    /\ error' = exc

\* the locals of a fresh _parse_json_payload call for `stage`
BeginDecode(stage, t, ents) ==
    /\ attempt' = 0
    /\ user_prompt' = UserPrompt(stage, t, ents)
    /\ last_error' = NoCause
    /\ decode' = [decode EXCEPT ![stage] = "running"]

\* main(), up to the call of extract_entities
Start ==
    /\ pc = "start"
    /\ pipeline = "codex_code"
    /\ UNCHANGED <<pipeline, input_exists, max_attempts, raw, log, svc, reply,
                   total_calls, candidates, entities, relationships, graph,
                   rendered>>
    /\ IF ~input_exists
       THEN /\ Ends("exit", Exc("SystemExit", "Input file not found", NoCause))
            /\ UNCHANGED <<text, attempt, user_prompt, last_error, decode>>
       ELSE LET t == StrStrip(text, Whitespace) IN
            /\ text' = t
            /\ IF t = <<>>
               THEN /\ Ends("exit", Exc("SystemExit", "Input text is empty.", NoCause))
                    /\ UNCHANGED <<attempt, user_prompt, last_error, decode>>
               ELSE \E llm_ok \in BOOLEAN :
                    IF llm_ok
                    THEN /\ pc' = "extract_entities"
                         /\ error' = error
                         /\ BeginDecode("entities", t, <<>>)
                    ELSE /\ Ends("raised", Exc("RuntimeError", "aisuite is required", NoCause))
                         /\ UNCHANGED <<attempt, user_prompt, last_error, decode>>

EntityShapeMsg == "Entity extraction returned a non-list payload."
RelationshipShapeMsg == "Relationship extraction returned a non-list payload."

\* the gateway call of one loop iteration, as the run's observers see it
Called(stage, o, it) ==
    /\ svc' = o
    /\ reply' = Complete(o)
    /\ total_calls' = total_calls + 1
    /\ log' = [log EXCEPT ![stage] = Append(@, LogEntry(stage, user_prompt, o))]
    /\ raw' = [raw EXCEPT ![stage] = it.val]

\* the decoder's locals after an iteration that does not start another decode
Locals(it) ==
    /\ attempt' = attempt + 1
    /\ user_prompt' = it.prompt
    /\ last_error' = IF it.kind \in {"retry", "exhausted"} THEN it.err ELSE last_error

\* extract_entities: one iteration of its decode and, once the payload is
\* returned, the list check and _coerce_entities
ExtractEntitiesStep ==
    /\ pc = "extract_entities"
    /\ pipeline = "codex_code"
    /\ decode["entities"] = "running"
    /\ \E o \in ServiceOutcomes("entities") :
        LET it == DecodeIteration(o, attempt, max_attempts, user_prompt) IN
        /\ Called("entities", o, it)
        /\ UNCHANGED <<pipeline, input_exists, text, max_attempts, candidates,
                       relationships, graph, rendered>>
        /\ CASE it.kind = "transport" ->
                  /\ Ends("raised", it.exc)
                  /\ Locals(it)
                  /\ decode' = [decode EXCEPT !["entities"] = "transport_error"]
                  /\ UNCHANGED entities
             [] it.kind = "exhausted" ->
                  /\ Ends("raised", it.exc)
                  /\ Locals(it)
                  /\ decode' = [decode EXCEPT !["entities"] = "decode_error"]
                  /\ UNCHANGED entities
             [] it.kind = "retry" ->
                  /\ Locals(it)
                  /\ UNCHANGED <<pc, error, decode, entities>>
             [] it.kind = "returned" ->
                  IF ~IsList(it.val)
                  THEN /\ Ends("raised", Exc("ValueError", EntityShapeMsg, NoCause))
                       /\ Locals(it)
                       /\ decode' = [decode EXCEPT !["entities"] = "returned"]
                       /\ UNCHANGED entities
                  ELSE IF CoerceEntitiesRaises(it.val.items) # ""
                  THEN /\ Ends("raised", Exc(CoerceEntitiesRaises(it.val.items),
                                             CoerceErrorMsg(CoerceEntitiesRaises(it.val.items)),
                                             NoCause))
                       /\ Locals(it)
                       /\ decode' = [decode EXCEPT !["entities"] = "returned"]
                       /\ UNCHANGED entities
                  ELSE /\ entities' = CoerceEntities(it.val.items)
                       /\ pc' = "extract_relationships"
                       /\ error' = error
                       /\ attempt' = 0
                       /\ user_prompt' = UserPrompt("relationships", text, entities')
                       /\ last_error' = NoCause
                       /\ decode' = [decode EXCEPT !["entities"] = "returned",
                                                   !["relationships"] = "running"]

\* extract_relationships: one iteration of its decode and, once the payload
\* is returned, the list check and _coerce_relationships
ExtractRelationshipsStep ==
    /\ pc = "extract_relationships"
    /\ pipeline = "codex_code"
    /\ decode["relationships"] = "running"
    /\ \E o \in ServiceOutcomes("relationships") :
        LET it == DecodeIteration(o, attempt, max_attempts, user_prompt) IN
        /\ Called("relationships", o, it)
        /\ Locals(it)
        /\ UNCHANGED <<pipeline, input_exists, text, max_attempts, candidates,
                       entities, graph, rendered>>
        /\ CASE it.kind = "transport" ->
                  /\ Ends("raised", it.exc)
                  /\ decode' = [decode EXCEPT !["relationships"] = "transport_error"]
                  /\ UNCHANGED relationships
             [] it.kind = "exhausted" ->
                  /\ Ends("raised", it.exc)
                  /\ decode' = [decode EXCEPT !["relationships"] = "decode_error"]
                  /\ UNCHANGED relationships
             [] it.kind = "retry" ->
                  /\ UNCHANGED <<pc, error, decode, relationships>>
             [] it.kind = "returned" ->
                  /\ decode' = [decode EXCEPT !["relationships"] = "returned"]
                  /\ IF ~IsList(it.val)
                     THEN /\ Ends("raised", Exc("ValueError", RelationshipShapeMsg, NoCause))
                          /\ UNCHANGED relationships
                     ELSE IF CoerceRelationshipsRaises(it.val.items, entities) # ""
                     THEN /\ Ends("raised",
                                  Exc(CoerceRelationshipsRaises(it.val.items, entities),
                                      CoerceErrorMsg(CoerceRelationshipsRaises(it.val.items, entities)),
                                      NoCause))
                          /\ UNCHANGED relationships
                     ELSE /\ relationships' = CoerceRelationships(it.val.items, entities)
                          /\ pc' = "build_graph"
                          /\ error' = error

\* the graph built although a stage has failed
BuildGraphAfterFailure ==
    /\ pc \in {"build_graph", "raised"}
    /\ pipeline = "codex_code"
    /\ graph' = <<build_graph(entities, relationships)>>
    /\ pc' = "render_graph"
    /\ UNCHANGED <<pipeline, input_exists, text, max_attempts, attempt,
                   user_prompt, last_error, decode, raw, log, svc, reply,
                   total_calls, error, candidates, entities, relationships,
                   rendered>>

\* an assembler that uses its argument lists up: they are empty afterwards
BuildGraphConsuming ==
    /\ pc = "build_graph"
    /\ pipeline = "codex_code"
    /\ graph' = <<build_graph(entities, relationships)>>
    /\ pc' = "render_graph"
    /\ entities' = <<>>
    /\ relationships' = <<>>
    /\ UNCHANGED <<pipeline, input_exists, text, max_attempts, attempt,
                   user_prompt, last_error, decode, raw, log, svc, reply, total_calls,
                   error, candidates, rendered>>

\* graph = build_graph(entities, relationships)
BuildGraph ==
    /\ pc = "build_graph"
    /\ pipeline = "codex_code"
    /\ graph' = <<build_graph(entities, relationships)>>
    /\ pc' = "render_graph"
    /\ UNCHANGED <<pipeline, input_exists, text, max_attempts, attempt,
                   user_prompt, last_error, decode, raw, log, svc, reply, total_calls,
                   error, candidates, entities, relationships, rendered>>

\* render_graph(graph, output): the graph is handed to pyvis
RenderGraph ==
    /\ pc = "render_graph"
    /\ pipeline = "codex_code"
    /\ graph # <<>>
    /\ rendered' = TRUE
    /\ pc' = "done"
    /\ UNCHANGED <<pipeline, input_exists, text, max_attempts, attempt,
                   user_prompt, last_error, decode, raw, log, svc, reply, total_calls,
                   error, candidates, entities, relationships, graph>>

(***************************************************************************)
(* atomic_agents_pipeline/entity_graph.py: three agents, whose outputs the *)
(* agent library validates against the schema classes, and _render_graph.  *)
(***************************************************************************)
EntityTypes == {<<"person">>, <<"organization">>, <<"state">>}

Candidate(name, entity_type, importance) ==
    [name |-> name, entity_type |-> entity_type, importance |-> importance]

Canonical(canonical_name, types, importance, members) ==
    [canonical_name |-> canonical_name, types |-> types,
     importance |-> importance, members |-> members]

Record(source, target, relationship, weight) ==
    [source |-> source, target |-> target, relationship |-> relationship,
     weight |-> weight]

CandidateRecs ==
    { Candidate(<<"A">>, <<"person">>, 90),
      Candidate(<<"a">>, <<"person">>, 70),
      Candidate(<<"B">>, <<"organization">>, 80) }

CanonicalRecs ==
    { Canonical(<<"A">>, << <<"person">> >>, 90, << <<"A">>, <<"a">> >>),
      Canonical(<<"A">>, << <<"state">> >>, 40, <<>>),
      Canonical(<<"B">>, << <<"organization">>, <<"state">> >>, 80, << <<"B">> >>) }

RecordRecs ==
    { Record(<<"A">>, <<"B">>, <<"founded">>, 95),
      Record(<<"A">>, <<"B">>, <<"owns">>, 30),
      Record(<<"A">>, <<"G", "v">>, <<"based", "sp", "in">>, 50),
      Record(<<"G", "v">>, <<"B">>, <<"hosts">>, 50) }

AgentFailure == Exc("AgentError", "agent run failed", NoCause)

\* main(), up to the first agent run
AtomicStart ==
    /\ pc = "start"
    /\ pipeline = "atomic_agents"
    /\ UNCHANGED <<pipeline, input_exists, max_attempts, attempt, user_prompt,
                   last_error, decode, raw, log, svc, reply, total_calls, candidates,
                   entities, relationships, graph, rendered>>
    /\ IF ~input_exists
       THEN /\ Ends("raised", Exc("FileNotFoundError", "No such file", NoCause))
            /\ UNCHANGED text
       ELSE /\ text' = StrStrip(text, Whitespace)
            /\ \E key_set \in BOOLEAN :
                IF key_set
                THEN /\ pc' = "extract_entities"
                     /\ error' = error
                ELSE Ends("raised", Exc("RuntimeError", "OPENAI_API_KEY must be set", NoCause))

\* entity_result = entity_agent.run(...)
AtomicEntities ==
    /\ pc = "extract_entities"
    /\ pipeline = "atomic_agents"
    /\ total_calls' = total_calls + 1
    /\ UNCHANGED <<pipeline, input_exists, text, max_attempts, attempt,
                   user_prompt, last_error, decode, raw, log, svc, reply, entities,
                   relationships, graph, rendered>>
    /\ \/ /\ Ends("raised", AgentFailure)
          /\ UNCHANGED candidates
       \/ \E out \in SeqsUpTo(CandidateRecs, MaxRecs) :
          /\ candidates' = out
          /\ pc' = "canonicalize"
          /\ error' = error

\* canonical_result = synonym_agent.run(...)
AtomicCanonicalize ==
    /\ pc = "canonicalize"
    /\ pipeline = "atomic_agents"
    /\ total_calls' = total_calls + 1
    /\ UNCHANGED <<pipeline, input_exists, text, max_attempts, attempt,
                   user_prompt, last_error, decode, raw, log, svc, reply, candidates,
                   relationships, graph, rendered>>
    /\ \/ /\ Ends("raised", AgentFailure)
          /\ UNCHANGED entities
       \/ \E out \in SeqsUpTo(CanonicalRecs, MaxRecs) :
          /\ entities' = out
          /\ pc' = "extract_relationships"
          /\ error' = error

\* relationship_result = relationship_agent.run(...)
AtomicRelationships ==
    /\ pc = "extract_relationships"
    /\ pipeline = "atomic_agents"
    /\ total_calls' = total_calls + 1
    /\ UNCHANGED <<pipeline, input_exists, text, max_attempts, attempt,
                   user_prompt, last_error, decode, raw, log, svc, reply, candidates,
                   entities, graph, rendered>>
    /\ \/ /\ Ends("raised", AgentFailure)
          /\ UNCHANGED relationships
       \/ \E out \in SeqsUpTo(RecordRecs, MaxRecs) :
          /\ relationships' = out
          /\ pc' = "render_graph"
          /\ error' = error

\* _render_graph(canonical_result.entities, relationship_result.relationships, ...)
AtomicRender ==
    /\ pc = "render_graph"
    /\ pipeline = "atomic_agents"
    /\ graph' = <<render_graph_of(entities, relationships)>>
    /\ rendered' = TRUE
    /\ pc' = "done"
    /\ UNCHANGED <<pipeline, input_exists, text, max_attempts, attempt,
                   user_prompt, last_error, decode, raw, log, svc, reply, total_calls,
                   error, candidates, entities, relationships>>

Next ==
    \/ Start
    \/ ExtractEntitiesStep
    \/ ExtractRelationshipsStep
    \/ BuildGraph
    \/ RenderGraph
    \/ AtomicStart
    \/ AtomicEntities
    \/ AtomicCanonicalize
    \/ AtomicRelationships
    \/ AtomicRender

Spec == Init /\ [][Next]_vars

TypeOK ==
    /\ pipeline \in {"codex_code", "atomic_agents"}
    /\ pc \in {"start", "extract_entities", "canonicalize", "extract_relationships",
               "build_graph", "render_graph", "done", "exit", "raised",
               "coerce_entities", "coerce_relationships", "rebuilt"}
    /\ attempt \in 0..max_attempts
    /\ Len(graph) <= 1
    /\ rendered \in BOOLEAN
(***************************************************************************)
(* The assemblers on their own: every bounded list of entities and of      *)
(* relationship records, handed to build_graph or to _render_graph.        *)
(***************************************************************************)
Entity(name, type, importance) ==
    [name |-> name, type |-> type, importance |-> importance]

Relationship(source, target, relation_type, weight) ==
    [source |-> source, target |-> target, relation_type |-> relation_type,
     weight |-> weight]

EntityRecs ==
    { Entity(<<"A">>, <<"person">>, 90),
      Entity(<<"A">>, <<"state">>, 40),
      Entity(<<"B">>, <<"organization">>, 80) }

RelationshipRecs ==
    { Relationship(<<"A">>, <<"B">>, <<"founded">>, 95),
      Relationship(<<"A">>, <<"B">>, <<"owns">>, 30),
      Relationship(<<"A">>, <<"G", "v">>, <<"based", "sp", "in">>, 50),
      Relationship(<<"G", "v">>, <<"B">>, <<"hosts">>, 50) }

InitAssemble ==
    /\ pipeline \in {"codex_code", "atomic_agents"}
    /\ pc = IF pipeline = "codex_code" THEN "build_graph" ELSE "render_graph"
    /\ input_exists = TRUE
    /\ text = <<"T">>
    /\ max_attempts = DefaultMaxAttempts
    /\ attempt = 0
    /\ user_prompt = <<>>
    /\ last_error = NoCause
    /\ decode = [st \in Stages |-> "idle"]
    /\ raw = [st \in Stages |-> NoValue]
    /\ log = [st \in Stages |-> <<>>]
    /\ svc = NoOutcome
    /\ reply = NoReply
    /\ total_calls = 0
    /\ error = NoError
    /\ candidates = <<>>
    /\ entities \in (IF pipeline = "codex_code" THEN SeqsUpTo(EntityRecs, MaxRecs)
                     ELSE SeqsUpTo(CanonicalRecs, MaxRecs))
    /\ relationships \in (IF pipeline = "codex_code"
                          THEN SeqsUpTo(RelationshipRecs, MaxRecs)
                          ELSE SeqsUpTo(RecordRecs, MaxRecs))
    /\ graph = <<>>
    /\ rendered = FALSE

\* build_graph called a second time with the lists the first call was given
BuildGraphAgain ==
    /\ pc = "render_graph"
    /\ pipeline = "codex_code"
    /\ graph # <<>>
    /\ graph' = <<build_graph(entities, relationships)>>
    /\ pc' = "rebuilt"
    /\ UNCHANGED <<pipeline, input_exists, text, max_attempts, attempt,
                   user_prompt, last_error, decode, raw, log, svc, reply, total_calls,
                   error, candidates, entities, relationships, rendered>>

NextAssemble ==
    \/ BuildGraph
    \/ BuildGraphAgain
    \/ RenderGraph
    \/ AtomicRender

SpecAssemble == InitAssemble /\ [][NextAssemble]_vars
(***************************************************************************)
(* The coercions on their own: every bounded decoded array of raw entity   *)
(* records handed to the tail of extract_entities, and every bounded       *)
(* decoded array of raw relationship records handed to the tail of         *)
(* extract_relationships, followed by main()'s build_graph and render.     *)
(***************************************************************************)
ListOf(toks) ==
    [kind |-> "list", tok |-> "",
     items |-> [i \in DOMAIN toks |->
                    [kind |-> "dict", tok |-> toks[i], items |-> <<>>]]]

\* the entity lists the relationship coercion is given
ValidEntityLists ==
    { CoerceEntities(ListOf(<<"E_A", "E_B">>).items),
      CoerceEntities(ListOf(<<"E_B">>).items) }

InitCoerce ==
    /\ pipeline = "codex_code"
    /\ pc \in {"coerce_entities", "coerce_relationships"}
    /\ input_exists = TRUE
    /\ text = <<"T">>
    /\ max_attempts = DefaultMaxAttempts
    /\ attempt = 0
    /\ user_prompt = <<>>
    /\ last_error = NoCause
    /\ decode = [st \in Stages |->
                   IF st = "entities" \/ pc = "coerce_relationships"
                   THEN "returned" ELSE "idle"]
    /\ raw \in (IF pc = "coerce_entities"
                THEN { [st \in Stages |-> IF st = "entities" THEN ListOf(es) ELSE NoValue] :
                         es \in SeqsUpTo(EntityObjTokens, MaxRecs) }
                ELSE { [st \in Stages |-> IF st = "relationships" THEN ListOf(rs) ELSE NoValue] :
                         rs \in SeqsUpTo(RelObjTokens, MaxRecs) })
    /\ log = [st \in Stages |-> <<>>]
    /\ svc = NoOutcome
    /\ reply = NoReply
    /\ total_calls = 0
    /\ error = NoError
    /\ candidates = <<>>
    /\ entities \in (IF pc = "coerce_entities" THEN {<<>>} ELSE ValidEntityLists)
    /\ relationships = <<>>
    /\ graph = <<>>
    /\ rendered = FALSE

\* extract_entities from the decoded payload on: the list check and
\* _coerce_entities
CoerceEntitiesCall ==
    /\ pc = "coerce_entities"
    /\ LET payload == raw["entities"]
           cls == CoerceEntitiesRaises(payload.items)
       IN  IF ~IsList(payload)
           THEN /\ Ends("raised", Exc("ValueError", EntityShapeMsg, NoCause))
                /\ UNCHANGED entities
           ELSE IF cls # ""
           THEN /\ Ends("raised", Exc(cls, CoerceErrorMsg(cls), NoCause))
                /\ UNCHANGED entities
           ELSE /\ entities' = CoerceEntities(payload.items)
                /\ pc' = "build_graph"
                /\ error' = error
    /\ UNCHANGED <<pipeline, input_exists, text, max_attempts, attempt,
                   user_prompt, last_error, decode, raw, log, svc, reply,
                   total_calls, candidates, relationships, graph, rendered>>

\* extract_relationships from the decoded payload on: the list check and
\* _coerce_relationships
CoerceRelationshipsCall ==
    /\ pc = "coerce_relationships"
    /\ LET payload == raw["relationships"]
           cls == CoerceRelationshipsRaises(payload.items, entities)
       IN  IF ~IsList(payload)
           THEN /\ Ends("raised", Exc("ValueError", RelationshipShapeMsg, NoCause))
                /\ UNCHANGED relationships
           ELSE IF cls # ""
           THEN /\ Ends("raised", Exc(cls, CoerceErrorMsg(cls), NoCause))
                /\ UNCHANGED relationships
           ELSE /\ relationships' = CoerceRelationships(payload.items, entities)
                /\ pc' = "build_graph"
                /\ error' = error
    /\ UNCHANGED <<pipeline, input_exists, text, max_attempts, attempt,
                   user_prompt, last_error, decode, raw, log, svc, reply,
                   total_calls, candidates, entities, graph, rendered>>

NextCoerce ==
    \/ CoerceEntitiesCall
    \/ CoerceRelationshipsCall
    \/ BuildGraph
    \/ RenderGraph

SpecCoerce == InitCoerce /\ [][NextCoerce]_vars
(***************************************************************************)
(* Properties of the decoder                                               *)
(***************************************************************************)
AllUnparsable(st) == \A i \in DOMAIN log[st] : log[st][i].result = "unparsable"

\* the last gateway call of the run was made by the decode of stage st
LastCallOf(st) ==
    /\ log[st] # <<>>
    /\ st = "entities" => log["relationships"] = <<>>

\* the JSONDecodeError that json.loads raises on the last reply
ParseErrorOfReply ==
    [msg |-> JsonLoads(Clean(reply.text)).msg, doc |-> Clean(reply.text)]

RetryBoundState ==
    \A st \in Stages :
        /\ Len(log[st]) <= max_attempts
        /\ (Len(log[st]) = max_attempts /\ AllUnparsable(st)) =>
              /\ decode[st] = "decode_error"
              /\ pc = "raised"
              /\ error = Exc("ValueError", DecodeErrorMsg, last_error)
              /\ last_error = ParseErrorOfReply
        /\ decode[st] = "decode_error" =>
              Len(log[st]) = max_attempts /\ AllUnparsable(st)

NoCallAfterDecodeError ==
    (\E st \in Stages : decode[st] = "decode_error") =>
        (log' = log /\ total_calls' = total_calls)

\* C1: for every max_attempts >= 1 and every sequence of gateway responses a
\* decode issues at most max_attempts gateway calls; after max_attempts
\* consecutive responses that do not parse it raises the decode error, which
\* carries the last parse error, and no gateway call follows.
C1_RetryBound == []RetryBoundState /\ [][NoCallAfterDecodeError]_vars

\* three responses that do not parse exhaust a budget of three
C1_Witness ==
    /\ max_attempts = 3
    /\ decode["relationships"] = "decode_error"
    /\ Len(log["relationships"]) = 3
    /\ error.cause.doc = <<"x", "[", "]">>

RetrySuccessState ==
    \A st \in Stages :
        LET k == Len(log[st]) IN
        /\ (k >= 1 /\ log[st][k].result = "parsed") =>
              /\ decode[st] = "returned"
              /\ k <= max_attempts
              /\ \A i \in 1..(k - 1) : log[st][i].result = "unparsable"
              /\ LastCallOf(st) =>
                    /\ JsonLoads(Clean(reply.text)).ok
                    /\ raw[st] = JsonLoads(Clean(reply.text)).val
        /\ (k >= 1 /\ k < max_attempts /\ AllUnparsable(st)) =>
              /\ decode[st] = "running"
              /\ pc \in {"extract_entities", "extract_relationships"}
        /\ decode[st] = "returned" => (k >= 1 /\ log[st][k].result = "parsed")

NoCallAfterReturn ==
    \A st \in Stages : decode[st] = "returned" => log'[st] = log[st]

\* C2: when the first k-1 responses do not parse and the k-th does, with
\* k <= max_attempts, the decode returns the value of the k-th response after
\* exactly k gateway calls.
C2_RetryThenSuccess == []RetrySuccessState /\ [][NoCallAfterReturn]_vars

\* max_attempts = 2: garbage, then a JSON array of one entity
C2_Witness ==
    /\ max_attempts = 2
    /\ decode["entities"] = "returned"
    /\ Len(log["entities"]) = 2
    /\ log["entities"][1].result = "unparsable"
    /\ raw["entities"].kind = "list"
    /\ Len(entities) = 1
    /\ pc = "extract_relationships"
    /\ log["relationships"] = <<>>

\* C3: a first answer of the entity stage that is an empty JSON array inside
\* a code fence with the language tag json is parsed on that attempt, and
\* extract_entities returns the empty sequence without error.
C3_TaggedFenceParsed ==
    ( /\ pipeline = "codex_code"
      /\ svc = Outcome("str", FencedTaggedEmpty, <<>>)
      /\ Len(log["entities"]) = 1
      /\ log["relationships"] = <<>> ) =>
        /\ decode["entities"] = "returned"
        /\ raw["entities"] = [kind |-> "list", tok |-> "", items |-> <<>>]
        /\ entities = <<>>
        /\ pc = "extract_relationships"
        /\ error = NoError
ShapeErrorMsgs == {EntityShapeMsg, RelationshipShapeMsg}

\* the decode of stage st returned valid JSON that is no array
ShapeViolation(st) == decode[st] = "returned" /\ raw[st].kind # "list"

ShapeErrorState ==
    \A st \in Stages :
        /\ ShapeViolation(st) =>
              /\ pc = "raised"
              /\ error.cls = "ValueError"
              /\ error.msg \in ShapeErrorMsgs
              /\ error.msg # DecodeErrorMsg
              /\ error.cause = NoCause
        /\ decode[st] = "decode_error" =>
              /\ error.msg = DecodeErrorMsg
              /\ error.msg \notin ShapeErrorMsgs
              /\ error.cause # NoCause

NoCallAfterShapeError ==
    (\E st \in Stages : ShapeViolation(st)) =>
        (log' = log /\ total_calls' = total_calls)

\* C4: a response that parses as JSON whose top level is no array fails the
\* stage with a shape error that differs from the decode error of exhausted
\* retries, and no gateway call follows it even when attempts remain.
C4_ShapeErrorNotRetried == []ShapeErrorState /\ [][NoCallAfterShapeError]_vars

\* a JSON object on the first of three attempts
C4_Witness ==
    /\ max_attempts = 3
    /\ Len(log["entities"]) = 1
    /\ ShapeViolation("entities")
    /\ raw["entities"].kind = "dict"
    /\ error.msg = EntityShapeMsg

\* the response holds text that complete() can extract
HasText(o) ==
    \/ o.kind = "str"
    \/ o.kind = "list" /\ Chunks(o.parts) # <<>>

\* C5: complete() signals a transport failure, and returns no text, whenever
\* the service's response has no choices, no message or no content; it
\* returns text only when the response holds extractable text.
C5_UnusableShapeRaises ==
    /\ svc.kind \in {"no_choices", "no_message", "no_content"} => reply.raised
    /\ (svc.kind # "none" /\ ~reply.raised) => HasText(svc)

TransportFailureState ==
    \A st \in Stages :
        (log[st] # <<>> /\ log[st][Len(log[st])].result = "transport") =>
            /\ reply.raised
            /\ decode[st] = "transport_error"
            /\ pc = "raised"
            /\ error = reply.exc
            /\ error.cls = "RuntimeError"

NoStepAfterTransportFailure ==
    (\E st \in Stages : decode[st] = "transport_error") => UNCHANGED vars

\* C6: a transport failure raised by a gateway call of the decoder, on any
\* attempt, ends the decode with that failure and without another gateway
\* call, and the failure is the terminal outcome of the run.
C6_TransportNotRetried ==
    []TransportFailureState /\ [][NoStepAfterTransportFailure]_vars

\* the second of three attempts raises after the first did not parse
C6_Witness ==
    /\ max_attempts = 3
    /\ Len(log["entities"]) = 2
    /\ log["entities"][1].result = "unparsable"
    /\ log["entities"][2].result = "transport"
    /\ error.msg = "LLM request failed"

C17_OneNodePerEntity ==
    (graph # <<>> /\ raw["entities"].kind = "list") =>
        /\ \A k, l \in DOMAIN entities :
              k # l => entities[k].name # entities[l].name
        /\ Cardinality(DOMAIN graph[1].nodes) = Len(entities)

(***************************************************************************)
(* Properties of a run                                                     *)
(***************************************************************************)
Terminal == {"done", "exit", "raised"}

\* the stage that follows the completion of stage p
Follows(p, q) ==
    \/ p = "start" /\ q = "extract_entities"
    \/ p = "extract_entities" /\ q = "canonicalize" /\ pipeline = "atomic_agents"
    \/ p = "canonicalize" /\ q = "extract_relationships"
    \/ p = "extract_entities" /\ q = "extract_relationships" /\ pipeline = "codex_code"
    \/ p = "extract_relationships" /\ q = "build_graph" /\ pipeline = "codex_code"
    \/ p = "build_graph" /\ q = "render_graph"
    \/ p = "extract_relationships" /\ q = "render_graph" /\ pipeline = "atomic_agents"
    \/ p = "render_graph" /\ q = "done"

StageRank(p) ==
    CASE p = "start" -> 0
      [] p = "extract_entities" -> 1
      [] p = "canonicalize" -> 2
      [] p = "extract_relationships" -> 3
      [] p = "build_graph" -> 4
      [] p = "render_graph" -> 5
      [] OTHER -> 6

StageOrder ==
    /\ pc \in Terminal => UNCHANGED vars
    /\ pc' # pc =>
          \/ pc' \in {"raised", "exit"}
          \/ Follows(pc, pc') /\ StageRank(pc') > StageRank(pc)
    /\ (pc' # pc /\ pc' = "extract_relationships" /\ pipeline = "codex_code") =>
          decode'["entities"] = "returned" /\ raw'["entities"].kind = "list"
    /\ (pc' # pc /\ pc' = "build_graph") =>
          decode'["relationships"] = "returned" /\ raw'["relationships"].kind = "list"

NoGraphAfterFailure ==
    /\ pc \in {"raised", "exit"} => (graph = <<>> /\ ~rendered)
    /\ graph # <<>> => pc \in {"render_graph", "done"}
    /\ rendered => pc = "done"

\* C7: a run visits its stages only in the order Idle, ExtractingEntities,
\* Canonicalizing, ExtractingRelationships, Assembled, each after the one
\* before it has completed and never going back; a stage that ends in a
\* decode, shape or transport failure ends the run, and no graph is
\* assembled or rendered in that run.
C7_StagesInOrder == [][StageOrder]_vars /\ []NoGraphAfterFailure

\* the relationship stage fails after the entity stage has completed
C7_Witness ==
    /\ pc = "raised"
    /\ decode["entities"] = "returned"
    /\ Len(entities) = 2
    /\ decode["relationships"] = "decode_error"
    /\ graph = <<>>
(***************************************************************************)
(* Properties of the assembled graph                                       *)
(***************************************************************************)
\* the names of the entities handed to the assembler
NodeNames ==
    IF pipeline = "codex_code" THEN {entities[i].name : i \in DOMAIN entities}
    ELSE {entities[i].canonical_name : i \in DOMAIN entities}

Endpoints(r) == <<r.source, r.target>>

\* C8: every edge of the assembled graph has both endpoints among the
\* graph's nodes, the node set is exactly the set of entity names, and a
\* record that names an unknown endpoint gives neither an edge nor a node.
C8_ReferentialIntegrity ==
    graph # <<>> =>
        LET g == graph[1] IN
        /\ DOMAIN g.nodes = NodeNames
        /\ \A e \in DOMAIN g.edges :
              /\ e[1] \in DOMAIN g.nodes
              /\ e[2] \in DOMAIN g.nodes
              /\ \E i \in DOMAIN relationships : Endpoints(relationships[i]) = e
        /\ \A i \in DOMAIN relationships :
              (relationships[i].source \notin NodeNames
                    \/ relationships[i].target \notin NodeNames) =>
                 /\ Endpoints(relationships[i]) \notin DOMAIN g.edges
                 /\ {relationships[i].source, relationships[i].target} \cap DOMAIN g.nodes
                        \subseteq NodeNames

\* one record between two entities, one record to an unknown name
C8_Witness ==
    /\ graph # <<>>
    /\ pipeline = "codex_code"
    /\ Len(entities) = 2
    /\ Len(relationships) = 2
    /\ \E i \in DOMAIN relationships : relationships[i].target = <<"G", "v">>
    /\ DOMAIN graph[1].edges = {<< <<"A">>, <<"B">> >>}
    /\ DOMAIN graph[1].nodes = {<<"A">>, <<"B">>}

\* the attributes the assembler gives the edge of record r
EdgeAttrs(r) ==
    IF pipeline = "codex_code"
    THEN [relation_type |-> r.relation_type, weight |-> r.weight]
    ELSE [width |-> r.weight, title |-> r.relationship]

Admissible(r) == r.source \in NodeNames /\ r.target \in NodeNames

\* C9: when several admissible records share an ordered (source, target)
\* pair the graph holds one edge for the pair, and its label and weight are
\* those of the last such record in input order.
C9_LastRecordWins ==
    graph # <<>> =>
        LET g == graph[1] IN
        \A i \in DOMAIN relationships :
            LET r == relationships[i] IN
            ( /\ Admissible(r)
              /\ \A j \in (i + 1)..Len(relationships) :
                    Endpoints(relationships[j]) # Endpoints(r) ) =>
                /\ Endpoints(r) \in DOMAIN g.edges
                /\ g.edges[Endpoints(r)] = EdgeAttrs(r)

\* founded, then owns, between the same two entities
C9_Witness ==
    /\ graph # <<>>
    /\ pipeline = "codex_code"
    /\ Len(relationships) = 2
    /\ Endpoints(relationships[1]) = Endpoints(relationships[2])
    /\ relationships[1].relation_type = <<"founded">>
    /\ relationships[2].relation_type = <<"owns">>
    /\ Admissible(relationships[1])
    /\ graph[1].edges[<< <<"A">>, <<"B">> >>].relation_type = <<"owns">>

\* C10: extract_relationships validates only the shape of a record: a
\* decoded record with non-empty source, target and label is in its output
\* whether or not its source and target are entity names.
C10_NoNameFilterAtExtraction ==
    (pipeline = "codex_code" /\ pc \in {"build_graph", "render_graph", "done"}) =>
        \A i \in DOMAIN raw["relationships"].items :
            LET item   == ObjTable(raw["relationships"].items[i].tok)
                source == StrStrip(PyStr(item.source), Whitespace)
                target == StrStrip(PyStr(item.target), Whitespace)
                label  == StrStrip(PyStr(item.relation_type), Whitespace)
            IN  (source # <<>> /\ target # <<>> /\ label # <<>>) =>
                    \E j \in DOMAIN relationships :
                        /\ relationships[j].source = source
                        /\ relationships[j].target = target
                        /\ relationships[j].relation_type = label

(***************************************************************************)
(* Properties of the coercions                                             *)
(***************************************************************************)
RawName(x) == StrStrip(PyStr(ObjTable(x.tok).name), Whitespace)
RawType(x) == StrStrip(PyStr(ObjTable(x.tok).type), Whitespace)
RawKey(x)  == <<Lower(RawName(x)), Lower(RawType(x))>>

\* the raw records that are the first of their (name, type) pair
FirstOccurrences(items) ==
    { i \in DOMAIN items :
        /\ RawName(items[i]) # <<>>
        /\ \A j \in 1..(i - 1) : RawKey(items[j]) # RawKey(items[i]) }

RawSource(x) == StrStrip(PyStr(ObjTable(x.tok).source), Whitespace)
RawTarget(x) == StrStrip(PyStr(ObjTable(x.tok).target), Whitespace)
RawLabel(x)  == StrStrip(PyStr(ObjTable(x.tok).relation_type), Whitespace)

\* the raw relationship records whose endpoints name known entities
KnownEndpoints(items) ==
    { i \in DOMAIN items :
        /\ RawSource(items[i]) \in EntityNames(entities)
        /\ RawTarget(items[i]) \in EntityNames(entities) }

Coerced == pc \in {"build_graph", "render_graph", "done", "raised"}

\* the value in [0, 1] a raw importance or weight stands for: a number goes
\* to the nearest bound, anything absent or non-numeric to 0.5
UnitValue(v) ==
    CASE v.kind = "num" -> Max(0, Min(100, v.n))
      [] v.kind = "big" -> 100
      [] v.kind = "str" /\ FloatOfStr(v.s).ok -> Max(0, Min(100, FloatOfStr(v.s).n))
      [] OTHER -> HalfDefault

\* C11: for every raw importance or weight value (negative numbers, numbers
\* above 1, strings, a missing key) the record is kept and its coerced value
\* lies in [0, 1]: a numeric value is clamped to the nearest bound, an absent
\* or non-numeric value becomes 0.5.
C11_CoercedIntoUnitInterval ==
    Coerced =>
        /\ \A i \in FirstOccurrences(raw["entities"].items) :
              \E k \in DOMAIN entities :
                  /\ entities[k].name = RawName(raw["entities"].items[i])
                  /\ entities[k].type = RawType(raw["entities"].items[i])
                  /\ entities[k].importance \in 0..100
                  /\ entities[k].importance =
                        UnitValue(ObjTable(raw["entities"].items[i].tok).importance)
        /\ \A i \in KnownEndpoints(raw["relationships"].items) :
              \E k \in DOMAIN relationships :
                  /\ relationships[k].source = RawSource(raw["relationships"].items[i])
                  /\ relationships[k].target = RawTarget(raw["relationships"].items[i])
                  /\ relationships[k].weight \in 0..100
                  /\ relationships[k].weight =
                        UnitValue(ObjTable(raw["relationships"].items[i].tok).weight)

EntityKey(e) == <<Lower(e.name), Lower(e.type)>>

\* C12: the output of extract_entities never holds two entities with the
\* same (lowercased name, lowercased type) pair; of the raw records sharing
\* a pair the first is the one kept, and the output lists the first
\* occurrences in their input order.
C12_FirstOccurrenceKept ==
    (Coerced /\ pc # "raised" /\ raw["entities"].kind = "list") =>
        LET items == raw["entities"].items
            F     == FirstOccurrences(items)
        IN  /\ \A k, l \in DOMAIN entities :
                  k # l => EntityKey(entities[k]) # EntityKey(entities[l])
            /\ Len(entities) = Cardinality(F)
            /\ \A i \in F :
                  LET k == Cardinality({j \in F : j <= i}) IN
                  /\ entities[k].name = RawName(items[i])
                  /\ entities[k].type = RawType(items[i])
                  /\ entities[k].importance = UnitValue(ObjTable(items[i].tok).importance)

\* "A"/"person" followed by "a"/"Person": one entity, the first, is returned
C12_Witness ==
    /\ Coerced
    /\ pc # "raised"
    /\ raw["entities"].kind = "list"
    /\ Len(raw["entities"].items) = 2
    /\ raw["entities"].items[1].tok = "E_A"
    /\ raw["entities"].items[2].tok = "E_a"
    /\ Len(entities) = 1
    /\ entities[1].name = <<"A">>

\* C13: every entity in the output of extract_entities has a type in
\* {person, organization, state}; a raw record whose type is missing, empty
\* or any other value is dropped, without failing the stage.
C13_TypeInClosedSet ==
    (Coerced /\ raw["entities"].kind = "list") =>
        /\ \A k \in DOMAIN entities : Lower(entities[k].type) \in EntityTypes
        /\ (\A i \in DOMAIN raw["entities"].items :
               ~EnsureFloatRaises(ObjTable(raw["entities"].items[i].tok).importance))
             => pc # "raised"

\* C14: a relationship record is in the output of extract_relationships
\* only if its source, target and label are all non-empty after trimming:
\* every output record is a raw record with that non-empty label, so a
\* record whose label is missing or blank never appears.
C14_LabelRequired ==
    (Coerced /\ raw["relationships"].kind = "list") =>
        \A k \in DOMAIN relationships :
            \E i \in DOMAIN raw["relationships"].items :
                LET x == raw["relationships"].items[i] IN
                /\ RawSource(x) # <<>> /\ RawTarget(x) # <<>> /\ RawLabel(x) # <<>>
                /\ relationships[k].source = RawSource(x)
                /\ relationships[k].target = RawTarget(x)
                /\ relationships[k].relation_type = RawLabel(x)

(***************************************************************************)
(* Properties of a run                                                     *)
(***************************************************************************)
\* C15: when the input document is empty after trimming, the run fails
\* before any gateway call: no entity, canonicalization or relationship
\* request is ever issued and no graph is produced.
C15_EmptyInputNoCall ==
    (pc # "start" /\ input_exists /\ text = <<>>) =>
        /\ total_calls = 0
        /\ \A st \in Stages : log[st] = <<>>
        /\ graph = <<>>
        /\ ~rendered

\* C18: on every retry, whatever max_attempts is, the system prompt is the
\* stage's unchanged and the user prompt is the original user prompt with
\* the corrective instruction appended exactly once; the first attempt is
\* sent undecorated.
C18_ReminderAppendedOnce ==
    \A st \in Stages :
        \A i \in DOMAIN log[st] :
            /\ log[st][i].system = SystemPrompt(st)
            /\ log[st][i].user =
                  IF i = 1 THEN UserPrompt(st, text, entities)
                  ELSE UserPrompt(st, text, entities) \o Reminder
====
